---- MODULE Spec2Model ----
(***************************************************************************)
(* Model of wpanalyser/analyser.py (wp-file-analyser).                      *)
(*                                                                         *)
(* Strings are sequences of atoms.  An atom stands for a fixed run of      *)
(* characters that never overlaps another atom ("wp-content", "themes",    *)
(* "2", "/", "'", "Version:" ...), so that Python's substring, prefix and  *)
(* find operations on characters are the same operations on atoms.         *)
(***************************************************************************)
EXTENDS Integers, Sequences, FiniteSets, TLC

VARIABLES
    ignoreCall,     \* a call of ignored_file: [f, wpPath, done, result]
    versionCall,    \* a call of find_wp_version: [file, done, result]
    keyCall,        \* a call of search_file_for_key: [file, key, done, result]
    disk,           \* the filesystem: absolute component sequence -> kind
    wpPath,         \* main: wpPath, the installation root as given
    otherWpPath,    \* main: otherWpPath, the reference root
    dcres,          \* main: the dircmp result tree
    diff, extra, missing,   \* main: the three sets returned by analyze
    pc,             \* main: position in the analysis part of main
    artKind,        \* "plugins" or "themes": which enumeration runs
    artDir,         \* the entries of wp-content/<artKind> in iteration order
    artIdx,         \* number of entries the generator has taken so far
    artYielded,     \* the (name, version) pairs yielded so far
    artDetails,     \* what find_*_details returned for the last entry
    artMsgs,        \* error messages printed by the generator
    artPc,          \* "iterating", "done" or "raised"
    artExists,      \* whether wp-content/<artKind> is a directory
    gfPath,         \* get_file_from_each_subdirectory: its argument path
    gfFileName,     \* its argument fileName
    gfSubdirs,      \* subdirs, the first-level directories in listing order
    gfIdx,          \* number of subdirectories the loop has taken
    gfYielded,      \* the paths yielded so far
    gfPc,            \* "created", "iterating", "done" or "raised"
    printCall,       \* a call of print_analysis: [sets, iter, done, out]
    mArgs,          \* main: args [other, version, tidy] as argparse returns them
    mEnv,           \* main: what the run finds [wpIsWp, otherIsWp, verFile, plugins, themes]
    tempDir,        \* TEMP_DIR on the disk: "absent", "dir" or "file"
    zipFile,        \* the WordPress archive in TEMP_DIR, a destination state
    mRet,           \* what process_wp_dirs returned: <<wpPath, otherWpPath>>
    mIdx,           \* number of plugins or themes the current loop has taken
    mLog,           \* the steps main has executed, in order
    mPc,             \* main: position
    dlDest,         \* download_file: the state of the destination newFile
    dlCalls         \* the calls of download_file for that destination so far

ignoreVars  == <<ignoreCall>>
versionVars == <<versionCall>>
keyVars     == <<keyCall>>
analyzeVars == <<disk, wpPath, otherWpPath, dcres, diff, extra, missing, pc>>
artVars     == <<artKind, artDir, artIdx, artYielded, artDetails, artMsgs, artPc,
                 artExists>>
gfVars      == <<gfPath, gfFileName, gfSubdirs, gfIdx, gfYielded, gfPc>>
printVars   == <<printCall>>
mainVars    == <<mArgs, mEnv, tempDir, zipFile, mRet, mIdx, mLog, mPc>>
dlVars      == <<dlDest, dlCalls>>
vars == <<ignoreCall, versionCall, keyCall,
          disk, wpPath, otherWpPath, dcres, diff, extra, missing, pc,
          artKind, artDir, artIdx, artYielded, artDetails, artMsgs, artPc, artExists,
          gfPath, gfFileName, gfSubdirs, gfIdx, gfYielded, gfPc,
          printCall,
          mArgs, mEnv, tempDir, zipFile, mRet, mIdx, mLog, mPc,
          dlDest, dlCalls>>

(***************************************************************************)
(* Python values                                                           *)
(***************************************************************************)
\* Python's None and False as returned by the scanners; Raised stands for an
\* exception leaving the function
\* (each is a string of one reserved atom, so it never equals a scanned text).
None == <<"<None>">>
False == <<"<False>">>
Raised == <<"<Raised>">>

\* Python's truth test "not v" on the values the scanners return
Falsy(v) == v = None \/ v = False \/ v = <<>>

(***************************************************************************)
(* String operations                                                       *)
(***************************************************************************)
\* str.startswith
StartsWith(s, p) ==
    /\ Len(p) <= Len(s)
    /\ SubSeq(s, 1, Len(p)) = p

\* the positions (1-based) at which sub occurs in s
Occurrences(s, sub) ==
    {i \in 1..(Len(s) - Len(sub) + 1) : SubSeq(s, i, i + Len(sub) - 1) = sub}

\* Python's "sub in s"
Contains(s, sub) == Occurrences(s, sub) # {}

Min(S) == CHOOSE x \in S : \A y \in S : x <= y

\* str.find(sub, start) with 0-based indices, -1 when absent
Find(s, sub, start) ==
    LET hits == {i \in Occurrences(s, sub) : i - 1 >= start}
    IN  IF hits = {} THEN -1 ELSE Min(hits) - 1

\* Python slice s[a:b] for 0 <= a, 0 <= b (0-based, b exclusive)
Slice(s, a, b) ==
    LET hi == IF b > Len(s) THEN Len(s) ELSE b
    IN  IF a >= hi THEN <<>> ELSE SubSeq(s, a + 1, hi)

\* characters str.strip() removes
Whitespace == {" ", "\n"}

RECURSIVE LStrip(_)
LStrip(s) ==
    IF s # <<>> /\ Head(s) \in Whitespace THEN LStrip(Tail(s)) ELSE s

RECURSIVE RStrip(_)
RStrip(s) ==
    IF s # <<>> /\ s[Len(s)] \in Whitespace
    THEN RStrip(SubSeq(s, 1, Len(s) - 1)) ELSE s

\* str.strip()
Strip(s) == RStrip(LStrip(s))

\* str.replace(old, new) for a single-atom old
Replace(s, old, new) == [i \in 1..Len(s) |-> IF s[i] = old THEN new ELSE s[i]]

(***************************************************************************)
(* Paths (posixpath)                                                       *)
(***************************************************************************)
Sep == "/"

\* the process's working directory (an absolute path string)
Cwd == <<Sep, "home">>

\* os.path.join(a, b)
Join(a, b) ==
    IF b # <<>> /\ Head(b) = Sep THEN b
    ELSE IF a = <<>> \/ a[Len(a)] = Sep THEN a \o b
    ELSE a \o <<Sep>> \o b

\* str.split("/"): the components between separators, empty ones included
RECURSIVE Split(_)
Split(s) ==
    LET seps == {i \in 1..Len(s) : s[i] = Sep}
    IN  IF seps = {} THEN <<s>>
        ELSE LET i == Min(seps)
             IN  <<SubSeq(s, 1, i - 1)>> \o Split(SubSeq(s, i + 1, Len(s)))

\* "/".join(comps)
RECURSIVE JoinComps(_)
JoinComps(comps) ==
    IF comps = <<>> THEN <<>>
    ELSE IF Len(comps) = 1 THEN comps[1]
    ELSE comps[1] \o <<Sep>> \o JoinComps(Tail(comps))

\* the component loop of posixpath.normpath
RECURSIVE NormComps(_, _, _)
NormComps(comps, new, rooted) ==
    IF comps = <<>> THEN new
    ELSE LET c == Head(comps)
             rest == Tail(comps)
         IN  IF c = <<>> \/ c = <<".">> THEN NormComps(rest, new, rooted)
             ELSE IF \/ c # <<"..">>
                     \/ (~rooted /\ new = <<>>)
                     \/ (new # <<>> /\ new[Len(new)] = <<"..">>)
                  THEN NormComps(rest, Append(new, c), rooted)
             ELSE IF new # <<>>
                  THEN NormComps(rest, SubSeq(new, 1, Len(new) - 1), rooted)
             ELSE NormComps(rest, new, rooted)

\* number of leading slashes normpath keeps: 0, 1, or 2 for exactly two
InitialSlashes(path) ==
    IF ~StartsWith(path, <<Sep>>) THEN 0
    ELSE IF StartsWith(path, <<Sep, Sep>>) /\ ~StartsWith(path, <<Sep, Sep, Sep>>)
         THEN 2 ELSE 1

\* the normalised components of a path
PathComps(path) == NormComps(Split(path), <<>>, InitialSlashes(path) > 0)

\* posixpath.normpath
Normpath(path) ==
    LET n == InitialSlashes(path)
        body == JoinComps(PathComps(path))
        res == [i \in 1..n |-> Sep] \o body
    IN  IF res = <<>> THEN <<".">> ELSE res

\* os.path.abspath
Abspath(path) ==
    IF path # <<>> /\ Head(path) = Sep THEN Normpath(path)
    ELSE Normpath(Join(Cwd, path))

(***************************************************************************)
(* Path Classifier                                                         *)
(***************************************************************************)
IGNORED_WP_DIRS == << <<"wp-content", Sep, "themes">>,
                      <<"wp-content", Sep, "uploads">> >>

\* mutant: the prefix test without the separator boundary
is_subdir_NoSep(child, parent) ==
    StartsWith(Abspath(child), Abspath(parent))

is_subdir(child, parent) ==
    LET absPath == Abspath(child)
        absDir == Abspath(parent)
    IN  StartsWith(absPath, absDir \o <<Sep>>)

\* the loop of ignored_file from the i-th ignore directory on
RECURSIVE ignored_from(_, _, _)
ignored_from(i, f, root) ==
    IF i > Len(IGNORED_WP_DIRS) THEN FALSE
    ELSE LET s == IGNORED_WP_DIRS[i]
         IN  IF Contains(f, s) /\ is_subdir(f, Join(root, s)) THEN TRUE
             ELSE ignored_from(i + 1, f, root)

ignored_file(f, root) == ignored_from(1, f, root)

(***************************************************************************)
(* Filesystem                                                              *)
(***************************************************************************)
\* number of distinct file contents on the disk
NumContents == 2

Dir == <<"dir", 0>>
Absent == <<"absent", 0>>
FileKinds == {<<"file", c>> : c \in 1..NumContents}

\* the paths, relative to a root, that may exist in an installation or in a
\* reference copy (components are atom sequences)
RelSlots == { << <<"wp-content">> >>,
              << <<"wp-content">>, <<"themes">> >>,
              << <<"wp-content">>, <<"themes">>, <<"a.php">> >>,
              << <<"wp-content">>, <<"themes">>, <<"b.php">> >>,
              << <<"wp-content">>, <<"uploads">> >>,
              << <<"wp-content">>, <<"uploads">>, <<"a.php">> >> }

\* a tree below one root: every present entry lies in a directory
TreeConfigs ==
    {cfg \in [RelSlots -> {Dir, Absent} \cup FileKinds] :
        \A slot \in RelSlots :
            (cfg[slot] # Absent /\ Len(slot) > 1)
                => cfg[SubSeq(slot, 1, Len(slot) - 1)] = Dir}

CwdComps == PathComps(Cwd)
LeftRoot == CwdComps \o << <<"wp">> >>
RightRoot == CwdComps \o << <<"ref">> >>

\* the disk holding the installation at LeftRoot and the reference at RightRoot
DiskOf(cfgL, cfgR) ==
    LET present(cfg, root) == {root \o slot : slot \in {r \in RelSlots : cfg[r] # Absent}}
        keys == {LeftRoot, RightRoot} \cup present(cfgL, LeftRoot) \cup present(cfgR, RightRoot)
        rel(k) == SubSeq(k, Len(LeftRoot) + 1, Len(k))
    IN  [k \in keys |->
            IF k \in {LeftRoot, RightRoot} THEN Dir
            ELSE IF StartsWith(k, LeftRoot) THEN cfgL[rel(k)] ELSE cfgR[rel(k)]]

\* os.path.isdir
isdir(path) ==
    LET k == PathComps(Abspath(path))
    IN  k \in DOMAIN disk /\ disk[k] = Dir

\* os.path.isfile
isfile(path) ==
    LET k == PathComps(Abspath(path))
    IN  k \in DOMAIN disk /\ disk[k] \in FileKinds

\* os.listdir: the names of the entries of a directory
listdir(path) ==
    LET d == PathComps(Abspath(path))
    IN  {k[Len(k)] : k \in {e \in DOMAIN disk : Len(e) = Len(d) + 1 /\ StartsWith(e, d)}}

\* the content of a regular file
content(path) == disk[PathComps(Abspath(path))][2]

(***************************************************************************)
(* Directory comparison (filecmp.dircmp as main uses it)                   *)
(***************************************************************************)
RECURSIVE dircmp(_, _)
dircmp(left, right) ==
    LET left_list == listdir(left)
        right_list == listdir(right)
        common == left_list \cap right_list
        common_dirs == {x \in common : isdir(Join(left, x)) /\ isdir(Join(right, x))}
        common_files == {x \in common : isfile(Join(left, x)) /\ isfile(Join(right, x))}
    IN  [left |-> left,
         right |-> right,
         left_only |-> left_list \ right_list,
         right_only |-> right_list \ left_list,
         common_funny |-> common \ (common_dirs \cup common_files),
         same_files |-> {x \in common_files :
                            content(Join(left, x)) = content(Join(right, x))},
         diff_files |-> {x \in common_files :
                            content(Join(left, x)) # content(Join(right, x))},
         subdirs |-> [x \in common_dirs |-> dircmp(Join(left, x), Join(right, x))]]

\* the value of dcres before main has compared anything
NoDcres == [left |-> <<>>, right |-> <<>>, left_only |-> {}, right_only |-> {},
            common_funny |-> {}, same_files |-> {}, diff_files |-> {},
            subdirs |-> <<>>]

(***************************************************************************)
(* Tree-Diff Engine                                                        *)
(***************************************************************************)
\* mutant: the ignore rule applied to differing files as well
analyze_own_IgnoreDiff(node, wp) ==
    [diff |-> {p \in {Join(node.left, f) : f \in node.diff_files} : ~ignored_file(p, wp)},
     extra |-> {p \in {Join(node.left, name) : name \in node.left_only} :
                    ~ignored_file(p, wp) /\ ~isdir(p)},
     missing |-> {Join(node.right, f) : f \in node.right_only}]

\* mutant: the files directly inside an installation-only directory are
\* reported as extra too
analyze_own_WalkLeftOnly(node, wp) ==
    LET lefts == {Join(node.left, name) : name \in node.left_only}
        inside == UNION {{Join(d, c) : c \in listdir(d)} : d \in {p \in lefts : isdir(p)}}
    IN  [diff |-> {Join(node.left, f) : f \in node.diff_files},
         extra |-> {p \in lefts \cup inside : ~ignored_file(p, wp) /\ ~isdir(p)},
         missing |-> {Join(node.right, f) : f \in node.right_only}]

\* steps 1 to 3 of analyze: what one node contributes
analyze_own(node, wp) ==
    [diff |-> {Join(node.left, f) : f \in node.diff_files},
     extra |-> {p \in {Join(node.left, name) : name \in node.left_only} :
                    ~ignored_file(p, wp) /\ ~isdir(p)},
     missing |-> {Join(node.right, f) : f \in node.right_only}]

\* mutant: the recursion does not enter a directory that is itself ignored
analyze_subdirs_Pruned(node, wp) ==
    {x \in DOMAIN node.subdirs :
        ~\E s \in {IGNORED_WP_DIRS[i] : i \in 1..Len(IGNORED_WP_DIRS)} :
            Abspath(Join(node.left, x)) = Abspath(Join(wp, s))}

\* the children analyze recurses into
analyze_subdirs(node, wp) == DOMAIN node.subdirs

RECURSIVE analyze(_, _)
analyze(node, wp) ==
    LET own == analyze_own(node, wp)
        subs == {analyze(node.subdirs[x], wp) : x \in analyze_subdirs(node, wp)}
    IN  [diff |-> own.diff \cup UNION {r.diff : r \in subs},
         extra |-> own.extra \cup UNION {r.extra : r \in subs},
         missing |-> own.missing \cup UNION {r.missing : r \in subs}]

\* the spellings of the installation root on the command line
WpPathSpellings == { <<"wp">>, <<".", Sep, "wp">> }

AnalyzeInit ==
    /\ \E cfgL \in TreeConfigs, cfgR \in TreeConfigs : disk = DiskOf(cfgL, cfgR)
    /\ wpPath \in WpPathSpellings
    /\ otherWpPath = <<"ref">>
    /\ dcres = NoDcres
    /\ diff = {} /\ extra = {} /\ missing = {}
    /\ pc = "start"

\* main, line 498
Compare ==
    /\ pc = "start"
    /\ dcres' = dircmp(wpPath, otherWpPath)
    /\ pc' = "compared"
    /\ UNCHANGED <<disk, wpPath, otherWpPath, diff, extra, missing>>

\* main, line 499
Analyze ==
    /\ pc = "compared"
    /\ LET res == analyze(dcres, wpPath)
       IN  /\ diff' = res.diff
           /\ extra' = res.extra
           /\ missing' = res.missing
    /\ pc' = "analyzed"
    /\ UNCHANGED <<disk, wpPath, otherWpPath, dcres>>

(***************************************************************************)
(* Files read by the Metadata Extractor                                    *)
(***************************************************************************)
\* a file is missing, exists but cannot be opened, or holds lines
MissingFile == [state |-> "missing", lines |-> <<>>]
UnreadableFile == [state |-> "unreadable", lines |-> <<>>]
ReadableFile(lines) == [state |-> "readable", lines |-> lines]

\* all strings over an alphabet up to a length
RECURSIVE StringsUpTo(_, _)
StringsUpTo(alphabet, n) ==
    IF n = 0 THEN {<<>>}
    ELSE LET shorter == StringsUpTo(alphabet, n - 1)
         IN  shorter \cup {Append(t, a) : t \in shorter, a \in alphabet}

(***************************************************************************)
(* Core version                                                            *)
(***************************************************************************)
WpVersionMarker == <<"$wp_version =">>
Quote == <<"'">>

\* index (1-based) of the first line containing string, 0 when there is none
FirstLineWith(lines, string) ==
    LET hits == {i \in 1..Len(lines) : Contains(lines[i], string)}
    IN  IF hits = {} THEN 0 ELSE Min(hits)

\* open_file returns False for a file that is missing or cannot be opened
search_file_for_string(searchFile, string) ==
    IF searchFile.state # "readable" THEN False
    ELSE LET i == FirstLineWith(searchFile.lines, string)
         IN  IF i = 0 THEN False ELSE searchFile.lines[i]

find_wp_version(versionFile) ==
    LET line == search_file_for_string(versionFile, WpVersionMarker)
    IN  IF Falsy(line) THEN False
        ELSE LET cutStart == Find(line, Quote, 0) + 1
                 cutEnd == Find(line, Quote, cutStart + 1)
             IN  IF (cutStart <= 0) \/ (cutEnd <= cutStart) THEN False
                 ELSE Slice(line, cutStart, cutEnd)

(***************************************************************************)
(* Plugin and theme metadata                                               *)
(***************************************************************************)
\* the value a line gives for key: the stripped text after its first occurrence
LineValue(line, key) == Strip(Slice(line, Find(line, key, 0) + Len(key), Len(line)))

\* mutant: only the first line containing the key is looked at
search_file_for_key_FirstLineOnly(file, key) ==
    IF file.state # "readable" THEN Raised
    ELSE LET i == FirstLineWith(file.lines, key)
         IN  IF i = 0 \/ LineValue(file.lines[i], key) = <<>> THEN None
             ELSE LineValue(file.lines[i], key)

\* the loop of search_file_for_key over the lines from the i-th on
RECURSIVE key_from(_, _, _)
key_from(i, lines, key) ==
    IF i > Len(lines) THEN None
    ELSE LET line == lines[i]
             pos == Find(line, key, 0)
         IN  IF pos # -1
             THEN LET value == Strip(Slice(line, pos + Len(key), Len(line)))
                  IN  IF value # <<>> THEN value ELSE key_from(i + 1, lines, key)
             ELSE key_from(i + 1, lines, key)

\* Path.open raises for a file that is missing or cannot be opened
search_file_for_key(file, key) ==
    IF file.state # "readable" THEN Raised
    ELSE key_from(1, file.lines, key)

\* a directory entry of wp-content/plugins or wp-content/themes: its name and
\* the metadata files in it (a file that is absent from the map is missing)
FileIn(entry, filename) ==
    IF filename \in DOMAIN entry.files THEN entry.files[filename] ELSE MissingFile

\* what an extractor returns, or that it raised
Details(name, version) == [name |-> name, version |-> version, raised |-> FALSE]
DetailsRaised == [name |-> None, version |-> None, raised |-> TRUE]

\* mutant: the source file named after the directory is consulted first
variants_PhpFirst(name) ==
    << << name \o <<".php">>, <<"Version:">> >>,
       << <<"readme.txt">>, <<"Stable tag:">> >>,
       << Replace(name, "-", "_") \o <<".php">>, <<"Version:">> >> >>

\* find_plugin_details, lines 259-263
variants(name) ==
    << << <<"readme.txt">>, <<"Stable tag:">> >>,
       << name \o <<".php">>, <<"Version:">> >>,
       << Replace(name, "-", "_") \o <<".php">>, <<"Version:">> >> >>

\* the loop of find_plugin_details from the i-th variant on
RECURSIVE plugin_details_from(_, _, _)
plugin_details_from(i, pluginPath, vs) ==
    IF i > Len(vs) THEN Details(pluginPath.name, None)
    ELSE LET filepath == FileIn(pluginPath, vs[i][1])
         IN  IF filepath.state = "missing"
             THEN plugin_details_from(i + 1, pluginPath, vs)
             ELSE LET version == search_file_for_key(filepath, vs[i][2])
                  IN  IF version = Raised THEN DetailsRaised
                      ELSE IF version # None THEN Details(pluginPath.name, version)
                      ELSE plugin_details_from(i + 1, pluginPath, vs)

find_plugin_details(pluginPath) ==
    plugin_details_from(1, pluginPath, variants(pluginPath.name))

\* mutant: the theme's name defaults to the directory name
find_theme_details_DirName(themePath) ==
    LET filepath == FileIn(themePath, <<"style.css">>)
    IN  IF filepath.state = "missing" THEN Details(themePath.name, None)
        ELSE LET name == search_file_for_key(filepath, <<"Text Domain:">>)
                 version == search_file_for_key(filepath, <<"Version:">>)
             IN  IF name = Raised \/ version = Raised THEN DetailsRaised
                 ELSE Details(IF name = None THEN themePath.name ELSE name, version)

find_theme_details(themePath) ==
    LET filepath == FileIn(themePath, <<"style.css">>)
    IN  IF filepath.state = "missing" THEN Details(None, None)
        ELSE LET name == search_file_for_key(filepath, <<"Text Domain:">>)
                 version == search_file_for_key(filepath, <<"Version:">>)
             IN  IF name = Raised \/ version = Raised THEN DetailsRaised
                 ELSE Details(name, version)

(***************************************************************************)
(* Enumeration of plugins and themes                                       *)
(***************************************************************************)
IndexPhp == <<"index.php">>

\* what the generator does with the entry it takes next: find_plugins lines
\* 244-252, find_themes lines 276-284
ArtDetailsOf(kind, entry) ==
    IF kind = "plugins" THEN find_plugin_details(entry) ELSE find_theme_details(entry)

\* mutant: the generator ends at the first entry it cannot describe
ArtAfter_StopOnFailure(d) ==
    IF d.raised THEN "raised"
    ELSE IF d.name # None /\ d.version # None THEN "iterating" ELSE "done"

\* the generator goes on after an entry unless the extractor raised
ArtAfter(d) == IF d.raised THEN "raised" ELSE "iterating"

\* one pass of the for loop of find_plugins / find_themes
ArtStep ==
    /\ artPc = "iterating"
    /\ artExists
    /\ artIdx < Len(artDir)
    /\ LET entry == artDir[artIdx + 1]
       IN  /\ artIdx' = artIdx + 1
           /\ IF entry.name = IndexPhp
              THEN UNCHANGED <<artYielded, artDetails, artMsgs, artPc>>
              ELSE LET d == ArtDetailsOf(artKind, entry)
                   IN  /\ artDetails' = d
                       /\ artPc' = ArtAfter(d)
                       /\ artYielded' =
                            IF ~d.raised /\ d.name # None /\ d.version # None
                            THEN Append(artYielded, <<d.name, d.version>>)
                            ELSE artYielded
                       /\ artMsgs' =
                            IF d.raised \/ (d.name # None /\ d.version # None)
                            THEN artMsgs
                            ELSE artMsgs
                                 \o (IF d.name = None
                                     THEN << <<"name", entry.name>> >> ELSE <<>>)
                                 \o (IF d.version = None
                                     THEN << <<"version", entry.name>> >> ELSE <<>>)
    /\ UNCHANGED <<artKind, artDir, artExists>>

\* the directory iterator is exhausted: the generator returns
ArtFinish ==
    /\ artPc = "iterating"
    /\ artExists
    /\ artIdx = Len(artDir)
    /\ artPc' = "done"
    /\ UNCHANGED <<artKind, artDir, artIdx, artYielded, artDetails, artMsgs, artExists>>

\* Path(wpPath, "wp-content", <artKind>).iterdir() on a path that is not a
\* directory: the exception leaves the generator at its first step
ArtNoDirectory ==
    /\ artPc = "iterating"
    /\ ~artExists
    /\ artPc' = "raised"
    /\ UNCHANGED <<artKind, artDir, artIdx, artYielded, artDetails, artMsgs, artExists>>

(***************************************************************************)
(* Inputs                                                                  *)
(***************************************************************************)
\* longest path, in components below the root, given to ignored_file
MaxPathComps == 3

\* the directory and file names paths are built from
PathNames == { <<"wp-content">>, <<"themes">>, <<"themes", "2">>,
               <<"themes", "-backup">>, <<"uploads">>, <<"x.php">>,
               <<"..">>, <<>> }

\* the installation root as the caller may spell it
RootSpellings == { <<"wp">>, <<"wp", Sep>>, <<".", Sep, "wp">>,
                   <<Sep, "home", Sep, "wp">> }

\* the paths given to ignored_file: names joined below the root or below nothing
IgnoreInputs ==
    LET tails == StringsUpTo(PathNames, MaxPathComps)
    IN  {JoinComps(<< <<"wp">> >> \o t) : t \in tails}
            \cup {JoinComps(t) : t \in tails \ {<<>>}}

\* longest line and longest file of wp-includes/version.php
MaxVersionLineLen == 3
MaxVersionLines == 2
VersionAtoms == {"$wp_version =", "'", "1"}

VersionLines == StringsUpTo(VersionAtoms, MaxVersionLineLen)

\* longest line and longest file given to search_file_for_key
MaxKeyLineLen == 3
MaxKeyLines == 2
KeyAtoms == {"Version:", " ", "1"}

KeyLines == StringsUpTo(KeyAtoms, MaxKeyLineLen)

\* most entries in wp-content/plugins or wp-content/themes
MaxEntries == 2

PluginFileStates ==
    {MissingFile, UnreadableFile} \cup
    {ReadableFile(ls) : ls \in
        { << <<"Stable tag:", " ", "1">> >>,
          << <<"Version:", " ", "2">> >>,
          << <<"Stable tag:">>, <<"Version:", " ">> >>,
          << <<"Version:">>, <<"Stable tag:", "3">>, <<"x", "Version:", " ", "4", " ">> >> }}

ThemeFileStates ==
    {MissingFile, UnreadableFile} \cup
    {ReadableFile(ls) : ls \in
        { << <<"Text Domain:", " ", "t">>, <<"Version:", " ", "1">> >>,
          << <<"Version:", " ", "1">> >>,
          << <<"Text Domain:", " ", "t">>, <<"Version:", " ">> >>,
          <<>> }}

PluginNames == {IndexPhp, <<"akismet">>, <<"my", "-", "plugin">>}
ThemeNames == {IndexPhp, <<"twenty">>, <<"my", "-", "theme">>}

ArtNames(kind) == IF kind = "plugins" THEN PluginNames ELSE ThemeNames

\* the entries of a given name a directory of the kind may hold
ArtEntries(kind, n) ==
    LET cands == IF n = IndexPhp THEN {}
                 ELSE IF kind = "plugins"
                      THEN {variants(n)[i][1] : i \in 1..Len(variants(n))}
                      ELSE {<<"style.css">>}
        states == IF kind = "plugins" THEN PluginFileStates ELSE ThemeFileStates
    IN  {[name |-> n, files |-> fs] : fs \in [cands -> states]}

\* the directory listings whose entries have the given names in the given order
RECURSIVE Listings(_, _)
Listings(kind, names) ==
    IF names = <<>> THEN {<<>>}
    ELSE {Append(l, e) :
            l \in Listings(kind, SubSeq(names, 1, Len(names) - 1)),
            e \in ArtEntries(kind, names[Len(names)])}

\* an iteration order of distinct names
DistinctNames(names) == \A i, j \in 1..Len(names) : names[i] = names[j] => i = j

(***************************************************************************)
(* Initial states and calls                                                *)
(***************************************************************************)
IgnoreParked == ignoreCall = [f |-> <<>>, wpPath |-> <<>>, done |-> FALSE, result |-> FALSE]
VersionParked == versionCall = [file |-> MissingFile, done |-> FALSE, result |-> False]
KeyParked == keyCall = [file |-> MissingFile, key |-> <<>>, done |-> FALSE, result |-> None]
AnalyzeParked ==
    /\ disk = <<>> /\ wpPath = <<>> /\ otherWpPath = <<>> /\ dcres = NoDcres
    /\ diff = {} /\ extra = {} /\ missing = {} /\ pc = "parked"
ArtParked ==
    /\ artKind = "none" /\ artDir = <<>> /\ artIdx = 0 /\ artYielded = <<>>
    /\ artDetails = Details(None, None) /\ artMsgs = <<>> /\ artPc = "parked"
    /\ artExists = FALSE

GfParked ==
    /\ gfPath = <<>> /\ gfFileName = <<>> /\ gfSubdirs = <<>> /\ gfIdx = 0
    /\ gfYielded = <<>> /\ gfPc = "parked"

PrintParked ==
    printCall = [sets |-> <<{}, {}, {}, {}>>, iter |-> <<<<>>, <<>>, <<>>, <<>>>>,
                 done |-> FALSE, out |-> <<>>]

MainParked ==
    /\ mArgs = [other |-> None, version |-> None, tidy |-> FALSE]
    /\ mEnv = [wpIsWp |-> FALSE, otherIsWp |-> FALSE, verFile |-> MissingFile,
               plugins |-> 0, themes |-> 0]
    /\ tempDir = "absent" /\ zipFile = "absent" /\ mRet = <<None, None>>
    /\ mIdx = 0 /\ mLog = <<>> /\ mPc = "parked"

DlParked ==
    dlDest = "parked" /\ dlCalls = <<>>

IgnoreInit ==
    \E f \in IgnoreInputs, root \in RootSpellings :
        ignoreCall = [f |-> f, wpPath |-> root, done |-> FALSE, result |-> FALSE]

IgnoredFileCall ==
    /\ ~ignoreCall.done
    /\ ignoreCall' = [ignoreCall EXCEPT !.done = TRUE,
                        !.result = ignored_file(ignoreCall.f, ignoreCall.wpPath)]
    /\ UNCHANGED <<versionVars, keyVars, analyzeVars, artVars, gfVars, printVars, mainVars, dlVars>>

\* the version file is missing, unreadable, or holds up to MaxVersionLines lines
VersionInit ==
    \/ \E file \in {MissingFile, UnreadableFile} :
            versionCall = [file |-> file, done |-> FALSE, result |-> False]
    \/ \E n \in 0..MaxVersionLines : \E ls \in [1..n -> VersionLines] :
            versionCall = [file |-> ReadableFile(ls), done |-> FALSE, result |-> False]

FindWpVersionCall ==
    /\ ~versionCall.done
    /\ versionCall' = [versionCall EXCEPT !.done = TRUE,
                        !.result = find_wp_version(versionCall.file)]
    /\ UNCHANGED <<ignoreVars, keyVars, analyzeVars, artVars, gfVars, printVars, mainVars, dlVars>>

\* the metadata file is missing, unreadable, or holds up to MaxKeyLines lines
KeyInit ==
    \/ \E file \in {MissingFile, UnreadableFile} :
            keyCall = [file |-> file, key |-> <<"Version:">>, done |-> FALSE,
                       result |-> None]
    \/ \E n \in 0..MaxKeyLines : \E ls \in [1..n -> KeyLines] :
            keyCall = [file |-> ReadableFile(ls), key |-> <<"Version:">>,
                       done |-> FALSE, result |-> None]

SearchFileForKeyCall ==
    /\ ~keyCall.done
    /\ keyCall' = [keyCall EXCEPT !.done = TRUE,
                        !.result = search_file_for_key(keyCall.file, keyCall.key)]
    /\ UNCHANGED <<ignoreVars, versionVars, analyzeVars, artVars, gfVars, printVars, mainVars, dlVars>>

ArtInit ==
    /\ artKind \in {"plugins", "themes"}
    /\ artExists \in BOOLEAN
    /\ \E n \in 0..(IF artExists THEN MaxEntries ELSE 0) :
         \E names \in {o \in [1..n -> ArtNames(artKind)] : DistinctNames(o)} :
            artDir \in Listings(artKind, names)
    /\ artIdx = 0 /\ artYielded = <<>> /\ artDetails = Details(None, None)
    /\ artMsgs = <<>> /\ artPc = "iterating"

(***************************************************************************)
(* Specifications                                                          *)
(***************************************************************************)
\* the comparison and classification part of main
Init == AnalyzeInit /\ IgnoreParked /\ VersionParked /\ KeyParked /\ ArtParked /\ GfParked /\ PrintParked /\ MainParked /\ DlParked
Next ==
    \/ Compare /\ UNCHANGED <<ignoreVars, versionVars, keyVars, artVars, gfVars, printVars, mainVars, dlVars>>
    \/ Analyze /\ UNCHANGED <<ignoreVars, versionVars, keyVars, artVars, gfVars, printVars, mainVars, dlVars>>
Spec == Init /\ [][Next]_vars

\* ignored_file on every input
InitIgnore == IgnoreInit /\ VersionParked /\ KeyParked /\ AnalyzeParked /\ ArtParked /\ GfParked /\ PrintParked /\ MainParked /\ DlParked
NextIgnore == IgnoredFileCall
SpecIgnore == InitIgnore /\ [][NextIgnore]_vars

\* find_wp_version on every version file
InitVersion == VersionInit /\ IgnoreParked /\ KeyParked /\ AnalyzeParked /\ ArtParked /\ GfParked /\ PrintParked /\ MainParked /\ DlParked
NextVersion == FindWpVersionCall
SpecVersion == InitVersion /\ [][NextVersion]_vars

\* search_file_for_key on every metadata file
InitKey == KeyInit /\ IgnoreParked /\ VersionParked /\ AnalyzeParked /\ ArtParked /\ GfParked /\ PrintParked /\ MainParked /\ DlParked
NextKey == SearchFileForKeyCall
SpecKey == InitKey /\ [][NextKey]_vars

\* find_plugins and find_themes on every directory listing
InitArtifacts == ArtInit /\ IgnoreParked /\ VersionParked /\ KeyParked /\ AnalyzeParked /\ GfParked /\ PrintParked /\ MainParked /\ DlParked
NextArtifacts ==
    \/ ArtStep /\ UNCHANGED <<ignoreVars, versionVars, keyVars, analyzeVars, gfVars, printVars, mainVars, dlVars>>
    \/ ArtFinish /\ UNCHANGED <<ignoreVars, versionVars, keyVars, analyzeVars, gfVars, printVars, mainVars, dlVars>>
    \/ ArtNoDirectory /\ UNCHANGED <<ignoreVars, versionVars, keyVars, analyzeVars, gfVars, printVars, mainVars, dlVars>>
SpecArtifacts == InitArtifacts /\ [][NextArtifacts]_vars

(***************************************************************************)
(* Properties of the Tree-Diff Engine (specification Spec)                 *)
(***************************************************************************)
\* every node of a comparison tree
RECURSIVE Nodes(_)
Nodes(node) == {node} \cup UNION {Nodes(node.subdirs[x]) : x \in DOMAIN node.subdirs}

\* the path string dircmp and analyze build for a relative path below a root
RECURSIVE PathOf(_, _)
PathOf(root, rel) ==
    IF rel = <<>> THEN root ELSE PathOf(Join(root, Head(rel)), Tail(rel))

\* the path lies strictly below one of the ignore directories of the installation
UnderIgnoredDir(path) ==
    \E i \in 1..Len(IGNORED_WP_DIRS) :
        LET d == LeftRoot \o Split(IGNORED_WP_DIRS[i])
            k == PathComps(Abspath(path))
        IN  StartsWith(k, d) /\ Len(k) > Len(d)

\* C1: after analyze, none of diff, extra and missing contains the path of a
\* directory.
C1_NoDirectoryInResults ==
    pc = "analyzed" => \A p \in diff \cup extra \cup missing : ~isdir(p)

\* C2: ignore rules affect only extra: a left-only path for which ignored_file
\* is true is not in extra, while every differing file and every
\* reference-only entry of every node is in diff or missing, also below an
\* ignored directory.
C2_IgnoreOnlyAffectsExtra ==
    pc = "analyzed" =>
        \A n \in Nodes(dcres) :
            /\ \A name \in n.left_only :
                    ignored_file(Join(n.left, name), wpPath)
                        => Join(n.left, name) \notin extra
            /\ \A f \in n.diff_files : Join(n.left, f) \in diff
            /\ \A f \in n.right_only : Join(n.right, f) \in missing

\* C2 witness: an ignored left-only regular file is kept out of extra while a
\* differing file below the same ignored directory is in diff.
C2_Witness ==
    /\ pc = "analyzed"
    /\ \E n \in Nodes(dcres) : \E name \in n.left_only :
            /\ isfile(Join(n.left, name))
            /\ ignored_file(Join(n.left, name), wpPath)
            /\ Join(n.left, name) \notin extra
    /\ \E p \in diff : UnderIgnoredDir(p)

\* the regular files below a root, as relative paths
FilesBelow(root) ==
    {SubSeq(k, Len(root) + 1, Len(k)) :
        k \in {e \in DOMAIN disk : StartsWith(e, root) /\ disk[e] \in FileKinds}}

\* how many of the given conditions hold
CountTrue(conds) == Cardinality({i \in 1..Len(conds) : conds[i]})

\* C3: every regular file anywhere below the installation or the reference is
\* in exactly one class: in diff, in extra (or kept out of extra only because
\* it is ignored), in missing, or identical on both sides and in no set.
C3_Completeness ==
    pc = "analyzed" =>
        /\ \A rel \in FilesBelow(LeftRoot) :
            LET pL == PathOf(wpPath, rel)
                pR == PathOf(otherWpPath, rel)
                onRight == (RightRoot \o rel) \in DOMAIN disk
            IN  CountTrue(<< pL \in diff,
                             pL \in extra \/ (ignored_file(pL, wpPath) /\ ~onRight),
                             pL \in missing,
                             /\ isfile(pR) /\ content(pR) = content(pL)
                             /\ pL \notin diff \cup extra \cup missing
                             /\ pR \notin diff \cup extra \cup missing >>) = 1
        /\ \A rel \in FilesBelow(RightRoot) :
            LET pL == PathOf(wpPath, rel)
                pR == PathOf(otherWpPath, rel)
            IN  CountTrue(<< pL \in diff,
                             pR \in extra,
                             pR \in missing,
                             /\ isfile(pL) /\ content(pR) = content(pL)
                             /\ pL \notin diff \cup extra \cup missing
                             /\ pR \notin diff \cup extra \cup missing >>) = 1

\* C4: analyze returns exactly the union over every node of the tree of the
\* node's differing files (diff), of its left-only names that are neither
\* directories nor ignored (extra) and of its right-only names (missing).
C4_AnalyzeIsUnionOverAllNodes ==
    pc = "analyzed" =>
        /\ diff = UNION {{Join(n.left, f) : f \in n.diff_files} : n \in Nodes(dcres)}
        /\ extra = UNION {{Join(n.left, name) :
                            name \in {x \in n.left_only :
                                        /\ ~isdir(Join(n.left, x))
                                        /\ ~ignored_file(Join(n.left, x), wpPath)}} :
                          n \in Nodes(dcres)}
        /\ missing = UNION {{Join(n.right, f) : f \in n.right_only} : n \in Nodes(dcres)}

\* C4 witness: a node two levels down, below an ignored directory, contributes
\* to diff and to missing, and another node contributes to extra.
C4_Witness ==
    /\ pc = "analyzed"
    /\ \E n \in Nodes(dcres) :
         /\ n # dcres /\ n \notin {dcres.subdirs[x] : x \in DOMAIN dcres.subdirs}
         /\ UnderIgnoredDir(Join(n.left, <<"a.php">>))
         /\ n.diff_files # {} /\ n.right_only # {}
    /\ extra # {}

(***************************************************************************)
(* Properties of the Path Classifier (specification SpecIgnore)            *)
(***************************************************************************)
IgnoredDirs == {IGNORED_WP_DIRS[i] : i \in 1..Len(IGNORED_WP_DIRS)}

\* C5: ignored_file(f, root) is true exactly when some ignore subpath s is a
\* substring of f and the absolute form of f begins with the absolute form of
\* join(root, s) followed by a separator; so a true result means that f
\* resolves to a path strictly below the ignore directory, component by
\* component (never the directory itself, never a sibling whose name extends
\* it), and without a substring match the result is false.
C5_IgnoredFileContainment ==
    ignoreCall.done =>
        LET f == ignoreCall.f
            root == ignoreCall.wpPath
            k == PathComps(Abspath(f))
        IN  /\ ignoreCall.result =
                 (\E s \in IgnoredDirs :
                    /\ Contains(f, s)
                    /\ StartsWith(Abspath(f), Abspath(Join(root, s)) \o <<Sep>>))
            /\ ignoreCall.result =>
                 \E s \in IgnoredDirs :
                    LET d == PathComps(Abspath(root)) \o Split(s)
                    IN  StartsWith(k, d) /\ Len(k) > Len(d)
            /\ (\A s \in IgnoredDirs : ~Contains(f, s)) => ~ignoreCall.result

\* C5 witness: a path in a sibling directory whose name extends an ignore
\* directory's name contains the ignore subpath and is found not ignored.
C5_Witness ==
    /\ ignoreCall.done
    /\ ignoreCall.f = <<"wp", Sep, "wp-content", Sep, "themes", "-backup", Sep, "x.php">>
    /\ Contains(ignoreCall.f, IGNORED_WP_DIRS[1])
    /\ ~ignoreCall.result

(***************************************************************************)
(* Properties of the core version scan (specification SpecVersion)         *)
(***************************************************************************)
\* the text between the first two quotes that follow the marker on a line,
\* False when the line has no such pair of quotes
BetweenQuotesAfterMarker(line) ==
    LET after == Slice(line, Find(line, WpVersionMarker, 0) + Len(WpVersionMarker),
                       Len(line))
        open == Find(after, Quote, 0)
        close == Find(after, Quote, open + 1)
    IN  IF open = -1 \/ close = -1 THEN False
        ELSE Slice(after, open + 1, close)

\* C6: find_wp_version returns the text between the first two single quotes
\* that follow the marker on the first line containing the marker, and False
\* when the file cannot be opened, no line has the marker or the quotes are
\* missing.
C6_VersionBetweenQuotesAfterMarker ==
    versionCall.done =>
        LET file == versionCall.file
            i == FirstLineWith(file.lines, WpVersionMarker)
        IN  versionCall.result =
                IF file.state # "readable" \/ i = 0 THEN False
                ELSE BetweenQuotesAfterMarker(file.lines[i])

(***************************************************************************)
(* Properties of the key scan (specification SpecKey)                      *)
(***************************************************************************)
\* C8 as stated: the value comes only from the first line containing the key;
\* when its trimmed text is empty the file yields no value.
C8_OnlyFirstKeyLine ==
    (keyCall.done /\ keyCall.file.state = "readable") =>
        LET i == FirstLineWith(keyCall.file.lines, keyCall.key)
        IN  keyCall.result =
                IF i = 0 \/ LineValue(keyCall.file.lines[i], keyCall.key) = <<>>
                THEN None
                ELSE LineValue(keyCall.file.lines[i], keyCall.key)

\* the lines that contain the key and give it a non-empty trimmed value
ValueLines(lines, key) ==
    {i \in 1..Len(lines) : Contains(lines[i], key) /\ LineValue(lines[i], key) # <<>>}

\* C8 amended: the value comes from the first line that contains the key and
\* has non-empty trimmed text after it (lines containing the key with nothing
\* after it are passed over); the file yields no value only when it has no
\* such line, and an empty string is never returned.
C8_FirstNonEmptyKeyLine ==
    (keyCall.done /\ keyCall.file.state = "readable") =>
        LET hits == ValueLines(keyCall.file.lines, keyCall.key)
        IN  /\ keyCall.result # <<>>
            /\ keyCall.result =
                 IF hits = {} THEN None
                 ELSE LineValue(keyCall.file.lines[Min(hits)], keyCall.key)

\* C8 witness: the first line containing the key has nothing after it, a later
\* line has a value, and that value is returned.
C8_Witness ==
    /\ keyCall.done /\ keyCall.file.state = "readable"
    /\ LET lines == keyCall.file.lines
           i == FirstLineWith(lines, keyCall.key)
       IN  /\ i # 0
           /\ LineValue(lines[i], keyCall.key) = <<>>
           /\ keyCall.result \notin {None, Raised}

(***************************************************************************)
(* Properties of the plugin and theme extractors (SpecArtifacts)           *)
(***************************************************************************)
\* the generator has just taken an entry of the kind and called its extractor
JustExamined(kind) ==
    /\ artKind = kind
    /\ artIdx > 0
    /\ artDir[artIdx].name # IndexPhp

\* the candidate files of a plugin directory in the order of the claim C7
Candidates(name) ==
    << [file |-> <<"readme.txt">>, key |-> <<"Stable tag:">>],
       [file |-> name \o <<".php">>, key |-> <<"Version:">>],
       [file |-> Replace(name, "-", "_") \o <<".php">>, key |-> <<"Version:">>] >>

\* C7: find_plugin_details returns the value of the first candidate, in the
\* order readme.txt / <dirname>.php / <dirname with _>.php, that exists and
\* yields a value; missing candidates and candidates without a value are
\* passed over, and the version is absent only when no candidate yields one.
\* (The extractor returns unless a candidate it opens cannot be read.)
C7_PluginCandidateOrder ==
    (JustExamined("plugins") /\ ~artDetails.raised) =>
        LET entry == artDir[artIdx]
            cs == Candidates(entry.name)
            value(i) == search_file_for_key(FileIn(entry, cs[i].file), cs[i].key)
            yielding == {i \in 1..Len(cs) :
                            /\ FileIn(entry, cs[i].file).state = "readable"
                            /\ value(i) # None}
        IN  /\ yielding # {} => artDetails.version = value(Min(yielding))
            /\ yielding = {} => artDetails.version = None
            /\ artDetails.version = None => yielding = {}

\* C7 witness: readme.txt exists without a Stable tag value, the file named
\* after the directory has a Version value, and that value is returned.
C7_Witness ==
    /\ JustExamined("plugins") /\ ~artDetails.raised
    /\ LET entry == artDir[artIdx]
           cs == Candidates(entry.name)
       IN  /\ FileIn(entry, cs[1].file).state = "readable"
           /\ search_file_for_key(FileIn(entry, cs[1].file), cs[1].key) = None
           /\ FileIn(entry, cs[2].file).state = "readable"
           /\ artDetails.version # None
           /\ artDetails.version
                = search_file_for_key(FileIn(entry, cs[2].file), cs[2].key)

\* the value of the Text Domain label of a theme's style.css, None without one
TextDomainOf(entry) ==
    LET css == FileIn(entry, <<"style.css">>)
    IN  IF css.state # "readable" THEN None
        ELSE LET hits == ValueLines(css.lines, <<"Text Domain:">>)
             IN  IF hits = {} THEN None
                 ELSE LineValue(css.lines[Min(hits)], <<"Text Domain:">>)

\* C9 as stated: the name returned by either extractor is the name label's
\* value when one is found and the directory's own name otherwise, so it is
\* never absent.
C9_NameDefaultsToDirName ==
    /\ (JustExamined("plugins") /\ ~artDetails.raised) =>
            artDetails.name = artDir[artIdx].name
    /\ (JustExamined("themes") /\ ~artDetails.raised) =>
            artDetails.name = IF TextDomainOf(artDir[artIdx]) # None
                              THEN TextDomainOf(artDir[artIdx])
                              ELSE artDir[artIdx].name

\* C9 amended: a plugin's name is always the directory's own name; a theme's
\* name is the value of the Text Domain label of style.css when one is found
\* and absent otherwise (style.css missing or without the label): the theme
\* directory's name is not used, and for themes the name can be absent.
C9_PluginNameIsDirThemeNameIsLabel ==
    /\ (JustExamined("plugins") /\ ~artDetails.raised) =>
            artDetails.name = artDir[artIdx].name
    /\ (JustExamined("themes") /\ ~artDetails.raised) =>
            artDetails.name = TextDomainOf(artDir[artIdx])

\* C9 witness: a theme whose style.css has a Version but no Text Domain label
\* has been examined: its version is found and its name is absent.
C9_Witness ==
    /\ JustExamined("themes") /\ ~artDetails.raised
    /\ FileIn(artDir[artIdx], <<"style.css">>).state = "readable"
    /\ artDetails.version # None
    /\ artDetails.name = None

\* the pairs the generator owes for a sequence of entries, in order
RECURSIVE PairsOf(_, _)
PairsOf(kind, entries) ==
    IF entries = <<>> THEN <<>>
    ELSE LET e == entries[Len(entries)]
             d == ArtDetailsOf(kind, e)
             before == PairsOf(kind, SubSeq(entries, 1, Len(entries) - 1))
         IN  IF e.name # IndexPhp /\ ~d.raised /\ d.name # None /\ d.version # None
             THEN Append(before, <<d.name, d.version>>)
             ELSE before

C11_UnopenableFileIsAbsent ==
    artExists => (artPc # "raised" /\ ~artDetails.raised)

(***************************************************************************)
(* Files of the first-level subdirectories                                 *)
(***************************************************************************)
\* mutant: a root that is not a directory has no subdirectories
first_level_EmptyOnMissing(path) ==
    [raised |-> FALSE,
     dirs |-> IF isdir(path) THEN {d \in listdir(path) : isdir(Join(path, d))} ELSE {}]

\* next(os.walk(path))[1]: os.walk produces nothing for a path that is not a
\* directory, so next() raises StopIteration, which becomes Exception
first_level(path) ==
    IF isdir(path)
    THEN [raised |-> FALSE, dirs |-> {d \in listdir(path) : isdir(Join(path, d))}]
    ELSE [raised |-> TRUE, dirs |-> {}]

\* the orders in which a directory listing may deliver a set of names
Orderings(names) ==
    {o \in [1..Cardinality(names) -> names] :
        \A i, j \in 1..Cardinality(names) : o[i] = o[j] => i = j}

\* the first step of the generator: the try block
GfWalk ==
    /\ gfPc = "created"
    /\ LET w == first_level(gfPath)
       IN  IF w.raised
           THEN gfPc' = "raised" /\ gfSubdirs' = gfSubdirs
           ELSE gfPc' = "iterating" /\ gfSubdirs' \in Orderings(w.dirs)
    /\ UNCHANGED <<gfPath, gfFileName, gfIdx, gfYielded>>

\* one pass of the for loop
GfStep ==
    /\ gfPc = "iterating"
    /\ gfIdx < Len(gfSubdirs)
    /\ LET f == Join(Join(gfPath, gfSubdirs[gfIdx + 1]), gfFileName)
       IN  gfYielded' = IF isfile(f) THEN Append(gfYielded, f) ELSE gfYielded
    /\ gfIdx' = gfIdx + 1
    /\ UNCHANGED <<gfPath, gfFileName, gfSubdirs, gfPc>>

\* the loop is over: the generator returns
GfFinish ==
    /\ gfPc = "iterating"
    /\ gfIdx = Len(gfSubdirs)
    /\ gfPc' = "done"
    /\ UNCHANGED <<gfPath, gfFileName, gfSubdirs, gfIdx, gfYielded>>

\* roots the generator is asked to list (relative to the working directory):
\* the installation, its wp-content, a path that does not exist, and a path
\* below wp-content/themes
GfPaths == { <<"wp">>, <<"wp", Sep, "wp-content">>, <<"gone">>,
             <<"wp", Sep, "wp-content", Sep, "themes", Sep, "a.php">> }
GfFileNames == { <<"a.php">>, <<"b.php">>, <<"themes">> }

\* main's variables while only the disk is in use
AnalyzeIdle ==
    /\ wpPath = <<>> /\ otherWpPath = <<>> /\ dcres = NoDcres
    /\ diff = {} /\ extra = {} /\ missing = {} /\ pc = "parked"

GfInit ==
    /\ \E cfg \in TreeConfigs : disk = DiskOf(cfg, [slot \in RelSlots |-> Absent])
    /\ AnalyzeIdle
    /\ gfPath \in GfPaths /\ gfFileName \in GfFileNames
    /\ gfSubdirs = <<>> /\ gfIdx = 0 /\ gfYielded = <<>> /\ gfPc = "created"

\* get_file_from_each_subdirectory on every tree, and find_plugins /
\* find_themes on every listing
SubdirsInit == (GfInit /\ ArtParked) \/ (ArtInit /\ AnalyzeParked /\ GfParked)
InitSubdirs == SubdirsInit /\ IgnoreParked /\ VersionParked /\ KeyParked /\ PrintParked /\ MainParked /\ DlParked
NextSubdirs ==
    \/ GfWalk /\ UNCHANGED <<ignoreVars, versionVars, keyVars, analyzeVars, artVars, printVars, mainVars, dlVars>>
    \/ GfStep /\ UNCHANGED <<ignoreVars, versionVars, keyVars, analyzeVars, artVars, printVars, mainVars, dlVars>>
    \/ GfFinish /\ UNCHANGED <<ignoreVars, versionVars, keyVars, analyzeVars, artVars, printVars, mainVars, dlVars>>
    \/ ArtStep /\ UNCHANGED <<ignoreVars, versionVars, keyVars, analyzeVars, gfVars, printVars, mainVars, dlVars>>
    \/ ArtFinish /\ UNCHANGED <<ignoreVars, versionVars, keyVars, analyzeVars, gfVars, printVars, mainVars, dlVars>>
    \/ ArtNoDirectory /\ UNCHANGED <<ignoreVars, versionVars, keyVars, analyzeVars, gfVars, printVars, mainVars, dlVars>>
SpecSubdirs == InitSubdirs /\ [][NextSubdirs]_vars

\* the immediate subdirectories of the root, read off the disk
ImmediateSubdirs ==
    {k[Len(k)] : k \in {e \in DOMAIN disk :
                            /\ Len(e) = Len(PathComps(Abspath(gfPath))) + 1
                            /\ StartsWith(e, PathComps(Abspath(gfPath)))
                            /\ disk[e] = Dir}}

\* the file named gfFileName lies directly in subdirectory d of the root
HasFile(d) ==
    LET k == PathComps(Abspath(gfPath)) \o <<d, gfFileName>>
    IN  k \in DOMAIN disk /\ disk[k] \in FileKinds

\* C12: listing a root that is not an existing directory raises and yields
\* nothing, for get_file_from_each_subdirectory and for find_plugins /
\* find_themes on a missing artifact directory (they never return normally).
\* For an existing root the generator does not raise, takes exactly the
\* immediate subdirectories, and what it has yielded is, in listing order,
\* join(root, d, fileName) for exactly the subdirectories d taken so far that
\* hold that file directly; nothing below the first level is yielded.
C12_SubdirectoryListing ==
    /\ gfPc \in {"iterating", "done", "raised"} =>
        /\ (gfPc = "raised") <=> (PathComps(Abspath(gfPath)) \notin DOMAIN disk
                                    \/ disk[PathComps(Abspath(gfPath))] # Dir)
        /\ gfPc = "raised" => gfYielded = <<>>
        /\ gfPc # "raised" =>
            /\ Len(gfSubdirs) = Cardinality(ImmediateSubdirs)
            /\ {gfSubdirs[i] : i \in 1..Len(gfSubdirs)} = ImmediateSubdirs
            /\ gfIdx <= Len(gfSubdirs)
            /\ gfPc = "done" => gfIdx = Len(gfSubdirs)
            /\ LET taken == {i \in 1..gfIdx : HasFile(gfSubdirs[i])}
               IN  /\ Len(gfYielded) = Cardinality(taken)
                   /\ \A n \in 1..Len(gfYielded) :
                        \E i \in taken :
                            /\ Cardinality({j \in taken : j <= i}) = n
                            /\ gfYielded[n] = gfPath \o <<Sep>> \o gfSubdirs[i]
                                                \o <<Sep>> \o gfFileName
    /\ (artPc \in {"iterating", "done", "raised"} /\ ~artExists) =>
        (artPc # "done" /\ artYielded = <<>> /\ artIdx = 0)

\* C12 witness: an existing root with two subdirectories of which exactly the
\* second in listing order holds the file; the generator has finished.
C12_Witness ==
    /\ gfPc = "done" /\ Len(gfSubdirs) = 2
    /\ ~HasFile(gfSubdirs[1]) /\ HasFile(gfSubdirs[2])
    /\ Len(gfYielded) = 1

\* a missing root has ended the generator with an exception
C12_WitnessRaised == gfPc = "raised" /\ gfPath = <<"gone">>

\* a missing artifact directory has ended find_plugins with an exception
C12_WitnessNoDirectory == artPc = "raised" /\ ~artExists

(***************************************************************************)
(* Report (print_analysis)                                                 *)
(***************************************************************************)
\* the characters of the paths reported here, with their code points
CodePoint == [c \in {"/", "Z", "a", "b"} |->
                CASE c = "/" -> 47 [] c = "Z" -> 90 [] c = "a" -> 97 [] c = "b" -> 98]

\* Python's str.__lt__: comparison by code points, a proper prefix first
RECURSIVE StrLess(_, _)
StrLess(s, t) ==
    IF t = <<>> THEN FALSE
    ELSE IF s = <<>> THEN TRUE
    ELSE IF Head(s) = Head(t) THEN StrLess(Tail(s), Tail(t))
    ELSE CodePoint[Head(s)] < CodePoint[Head(t)]

\* mutant: the elements are printed in the order the set delivers them
sorted_AsIterated(seq) == seq

\* sorted(iterable): a stable ascending sort of what the iterable delivers
RECURSIVE sorted(_)
sorted(seq) ==
    IF seq = <<>> THEN <<>>
    ELSE LET x == seq[Len(seq)]
             rest == sorted(SubSeq(seq, 1, Len(seq) - 1))
             below == SelectSeq(rest, LAMBDA y : ~StrLess(x, y))
             above == SelectSeq(rest, LAMBDA y : StrLess(x, y))
         IN  below \o <<x>> \o above

\* "%s" % n for a natural number: its decimal digits
RECURSIVE DecimalStr(_)
DecimalStr(n) ==
    LET digit == <<"0", "1", "2", "3", "4", "5", "6", "7", "8", "9">>[(n % 10) + 1]
    IN  IF n < 10 THEN <<digit>> ELSE Append(DecimalStr(n \div 10), digit)

SectionLabels == << <<"DIFF: (">>, <<"EXTRA: (">>, <<"MISSING: (">>,
                    <<"PHP FILES IN 'WP-CONTENT/UPLOADS': (">> >>

\* one section: the print of the header, then one print per element
Section(k, set, iter) ==
    << SectionLabels[k] \o DecimalStr(Cardinality(set)) \o <<")">> >> \o sorted(iter)

\* the lines print_analysis writes, in order
print_analysis(sets, iter) ==
    Section(1, sets[1], iter[1]) \o Section(2, sets[2], iter[2])
        \o Section(3, sets[3], iter[3]) \o Section(4, sets[4], iter[4])

\* the paths that may be reported: "Z", "a" and "a/b"
PrintPaths == { <<"Z">>, <<"a">>, <<"a", Sep, "b">> }

\* the four sets, each with the order in which iterating the set delivers it
PrintInit ==
    \E sets \in [1..4 -> SUBSET PrintPaths] :
        \E i1 \in Orderings(sets[1]), i2 \in Orderings(sets[2]),
           i3 \in Orderings(sets[3]), i4 \in Orderings(sets[4]) :
            printCall = [sets |-> sets, iter |-> <<i1, i2, i3, i4>>,
                         done |-> FALSE, out |-> <<>>]

PrintAnalysisCall ==
    /\ ~printCall.done
    /\ printCall' = [printCall EXCEPT !.done = TRUE,
                        !.out = print_analysis(printCall.sets, printCall.iter)]
    /\ UNCHANGED <<ignoreVars, versionVars, keyVars, analyzeVars, artVars, gfVars, mainVars, dlVars>>

\* print_analysis on every four sets and every iteration order
InitReport == PrintInit /\ IgnoreParked /\ VersionParked /\ KeyParked /\ AnalyzeParked /\ ArtParked /\ GfParked /\ MainParked /\ DlParked
NextReport == PrintAnalysisCall
SpecReport == InitReport /\ [][NextReport]_vars

\* the line on which section k starts
SectionStart(k) ==
    LET size(j) == 1 + Cardinality(printCall.sets[j])
    IN  1 + (IF k > 1 THEN size(1) ELSE 0) + (IF k > 2 THEN size(2) ELSE 0)
          + (IF k > 3 THEN size(3) ELSE 0)

\* C13: the output of print_analysis is four sections in the order DIFF,
\* EXTRA, MISSING, PHP FILES IN 'WP-CONTENT/UPLOADS'; a section is its header
\* with the number of elements of its set, then the elements of the set, each
\* once and unchanged, in strictly ascending code-point order; an empty set
\* gives the header with 0 alone.  The set's iteration order has no effect.
C13_ReportSections ==
    printCall.done =>
        LET out == printCall.out
            sets == printCall.sets
        IN  /\ Len(out) = 4 + Cardinality(sets[1]) + Cardinality(sets[2])
                            + Cardinality(sets[3]) + Cardinality(sets[4])
            /\ \A k \in 1..4 :
                LET s == SectionStart(k)
                    n == Cardinality(sets[k])
                IN  /\ out[s] = SectionLabels[k] \o DecimalStr(n) \o <<")">>
                    /\ \A i \in 1..n : out[s + i] \in sets[k]
                    /\ \A i \in 1..(n - 1) : StrLess(out[s + i], out[s + i + 1])
            /\ sets[1] = {} => out[1] = <<"DIFF: (", "0", ")">>

\* C13 witness: the report is printed for a MISSING set of three paths that
\* the set delivered in another order than the sorted one, and an empty DIFF.
C13_Witness ==
    /\ printCall.done
    /\ printCall.sets[1] = {} /\ Cardinality(printCall.sets[3]) = 3
    /\ printCall.iter[3] = << <<"a", Sep, "b">>, <<"a">>, <<"Z">> >>
    /\ SubSeq(printCall.out, SectionStart(3) + 1, SectionStart(3) + 3)
            = << <<"Z">>, <<"a">>, <<"a", Sep, "b">> >>

(***************************************************************************)
(* Fetching (download_file, unzip and their callers)                       *)
(***************************************************************************)
\* what a zip archive delivers to unzip: a top-level name first, an error of
\* the zip format, or an archive without any member
Bodies == {"good", "bad", "empty"}

\* the states of a download destination: no such path, a directory, or a
\* regular file holding a body or a part of one
FileStates == Bodies \cup {"partial"}
DestStates == {"absent", "dir"} \cup FileStates

\* what requests.get meets: no connection, an error status, or 200 and a body
NetStates == {"unreachable", "status"} \cup Bodies

\* mutant: an existing destination is downloaded again
download_file_Refetch(dest, net, creatable, written) ==
    IF net = "unreachable"
    THEN [result |-> FALSE, raised |-> TRUE, dest |-> dest, requests |-> 1]
    ELSE IF net = "status" \/ dest = "dir" \/ ~creatable
    THEN [result |-> FALSE, raised |-> FALSE, dest |-> dest, requests |-> 1]
    ELSE IF ~written
    THEN [result |-> FALSE, raised |-> TRUE, dest |-> "partial", requests |-> 1]
    ELSE [result |-> TRUE, raised |-> FALSE, dest |-> net, requests |-> 1]

\* download_file on a destination in state dest: creatable says whether
\* open(newFile, "wb") succeeds, written whether the body arrives and is
\* written in full (the exception of a failed read or write is not caught)
download_file(dest, net, creatable, written) ==
    IF dest \in FileStates
    THEN [result |-> TRUE, raised |-> FALSE, dest |-> dest, requests |-> 0]
    ELSE IF net = "unreachable"
    THEN [result |-> FALSE, raised |-> TRUE, dest |-> dest, requests |-> 1]
    ELSE IF net = "status"
    THEN [result |-> FALSE, raised |-> FALSE, dest |-> dest, requests |-> 1]
    ELSE IF dest = "dir" \/ ~creatable
    THEN [result |-> FALSE, raised |-> FALSE, dest |-> dest, requests |-> 1]
    ELSE IF ~written
    THEN [result |-> FALSE, raised |-> TRUE, dest |-> "partial", requests |-> 1]
    ELSE [result |-> TRUE, raised |-> FALSE, dest |-> net, requests |-> 1]

\* the name of the first member of a good archive
ExtractedName == <<"wordpress">>

\* unzip: False when the file cannot be opened or is no zip archive, the
\* first name of the archive otherwise; namelist[0] of an archive without
\* members raises IndexError, which is not caught
\* (extracted says whether z.extract wrote every member: its IOError is caught)
unzip(zip, extracted) ==
    IF zip \notin FileStates THEN False
    ELSE IF zip \in {"bad", "partial"} THEN False
    ELSE IF zip = "empty" THEN Raised
    ELSE IF ~extracted THEN False
    ELSE ExtractedName

\* get_zipped_asset, given what download_file did
get_zipped_asset(dl, extracted) ==
    IF dl.raised THEN Raised
    ELSE IF ~dl.result THEN False
    ELSE unzip(dl.dest, extracted)

\* every way a download can go for a destination
Downloads(dest) ==
    {download_file(dest, net, creatable, written) :
        net \in NetStates, creatable \in BOOLEAN, written \in BOOLEAN}

TEMP_DIR == <<"wpa-temp">>

(***************************************************************************)
(* process_wp_dirs                                                         *)
(***************************************************************************)
\* args.wordpress_path
MainWpPath == <<"wp">>

\* most plugins and most themes a run enumerates
MaxArtifacts == 2

\* wp-includes/version.php of the installation: missing, with a quoted
\* version, or with the marker alone
MainVersionFiles ==
    { MissingFile,
      ReadableFile(<< <<"$wp_version =", "'", "1", "'">> >>),
      ReadableFile(<< <<"$wp_version =">> >>) }

\* what argparse can deliver: the two options exclude each other; an option
\* given as the empty string arrives as ""
MainArgs ==
    {a \in [other : {None, <<>>, <<"ref">>}, version : {None, <<>>, <<"1">>},
            tidy : BOOLEAN] : a.other = None \/ a.version = None}

MainInit ==
    /\ mArgs \in MainArgs
    /\ mEnv \in {e \in [wpIsWp : BOOLEAN, otherIsWp : BOOLEAN,
                        verFile : MainVersionFiles,
                        plugins : 0..MaxArtifacts, themes : 0..MaxArtifacts] :
                    mArgs.other = None => ~e.otherIsWp}
    /\ tempDir \in {"absent", "dir", "file"}
    /\ zipFile \in {z \in DestStates : tempDir # "dir" => z = "absent"}
    /\ mRet = <<None, None>> /\ mIdx = 0 /\ mLog = <<>> /\ mPc = "start"

\* one executed step and how it ended: "ok", "failed" or "raised"
Logged(step, outcome) == Append(mLog, <<step, outcome>>)

\* process_wp_dirs returns
Return(a, b) == mRet' = <<a, b>> /\ mPc' = "returned"

\* is_wordpress(wpPath), lines 410-413
PwdInstall ==
    /\ mPc = "start"
    /\ IF ~mEnv.wpIsWp
       THEN mLog' = Logged("is_wordpress", "failed") /\ Return(False, False)
       ELSE /\ mLog' = Logged("is_wordpress", "ok")
            /\ mPc' = IF mArgs.other # None THEN "other" ELSE "tempdir"
            /\ mRet' = mRet
    /\ UNCHANGED <<mArgs, mEnv, tempDir, zipFile, mIdx>>

\* the supplied reference directory, lines 416-421
PwdOther ==
    /\ mPc = "other"
    /\ IF mEnv.otherIsWp
       THEN mLog' = Logged("is_wordpress_other", "ok") /\ Return(MainWpPath, mArgs.other)
       ELSE mLog' = Logged("is_wordpress_other", "failed") /\ Return(MainWpPath, False)
    /\ UNCHANGED <<mArgs, mEnv, tempDir, zipFile, mIdx>>

\* os.makedirs(TEMP_DIR) unless the path exists, lines 426-431
PwdTempDir ==
    /\ mPc = "tempdir"
    /\ IF tempDir # "absent"
       THEN UNCHANGED <<tempDir, mLog, mRet>> /\ mPc' = "version"
       ELSE \E made \in BOOLEAN :
                IF made
                THEN /\ tempDir' = "dir" /\ mLog' = Logged("makedirs", "ok")
                     /\ mPc' = "version" /\ mRet' = mRet
                ELSE /\ tempDir' = tempDir /\ mLog' = Logged("makedirs", "failed")
                     /\ Return(MainWpPath, False)
    /\ UNCHANGED <<mArgs, mEnv, zipFile, mIdx>>

\* mutant: an undetected version is used all the same
version_failed_Never(version) == FALSE

\* "if not version", line 438
version_failed(version) == Falsy(version)

\* the version given, or the one detected, lines 433-440
PwdVersion ==
    /\ mPc = "version"
    /\ IF ~Falsy(mArgs.version)
       THEN UNCHANGED <<mLog, mRet>> /\ mPc' = "download"
       ELSE IF version_failed(find_wp_version(mEnv.verFile))
       THEN mLog' = Logged("find_wp_version", "failed") /\ Return(MainWpPath, False)
       ELSE /\ mLog' = Logged("find_wp_version", "ok")
            /\ mPc' = "download" /\ mRet' = mRet
    /\ UNCHANGED <<mArgs, mEnv, tempDir, zipFile, mIdx>>

\* the ways download_file can go for a destination inside TEMP_DIR: a file
\* can be created there only when TEMP_DIR is a directory
TempDownloads(dest) ==
    {dl \in Downloads(dest) : (dl.dest # dest) => tempDir = "dir"}

\* download_wordpress, lines 442-444
PwdDownload ==
    /\ mPc = "download"
    /\ \E dl \in TempDownloads(zipFile) :
        /\ zipFile' = dl.dest
        /\ IF dl.raised
           THEN /\ mLog' = Logged("download_wordpress", "raised")
                /\ mPc' = "raised" /\ mRet' = mRet
           ELSE IF ~dl.result
           THEN mLog' = Logged("download_wordpress", "failed") /\ Return(MainWpPath, False)
           ELSE /\ mLog' = Logged("download_wordpress", "ok")
                /\ mPc' = "unzip" /\ mRet' = mRet
    /\ UNCHANGED <<mArgs, mEnv, tempDir, mIdx>>

\* unzip and the path of the extracted copy, lines 446-450
PwdUnzip ==
    /\ mPc = "unzip"
    /\ \E extracted \in BOOLEAN :
        LET extractedPath == unzip(zipFile, extracted)
        IN  IF extractedPath = Raised
            THEN /\ mLog' = Logged("unzip", "raised")
                 /\ mPc' = "raised" /\ mRet' = mRet
            ELSE IF Falsy(extractedPath)
            THEN mLog' = Logged("unzip", "failed") /\ Return(MainWpPath, False)
            ELSE /\ mLog' = Logged("unzip", "ok")
                 /\ Return(MainWpPath, Join(TEMP_DIR, extractedPath))
    /\ UNCHANGED <<mArgs, mEnv, tempDir, zipFile, mIdx>>

(***************************************************************************)
(* main                                                                    *)
(***************************************************************************)
\* lines 475-478: no comparison without both directories
MainAfterDirs ==
    /\ mPc = "returned"
    /\ IF mRet[1] = False \/ mRet[2] = False
       THEN mLog' = Logged("sys.exit", "ok") /\ mPc' = "exited"
       ELSE /\ mLog' = mLog
            /\ mPc' = IF Falsy(mArgs.other) THEN "plugins" ELSE "compare"
    /\ UNCHANGED <<mArgs, mEnv, tempDir, zipFile, mRet, mIdx>>

\* the loop index after one fetch: an exception leaves main, any other
\* result lets the loop take the next pair
after_fetch(res, idx, n) == IF res = Raised THEN idx ELSE idx + 1

\* one pass of a fetch loop, lines 485-487 and 491-493: the archive of the
\* plugin or theme may or may not lie in TEMP_DIR already
Fetch(step, n) ==
    \E dest \in {z \in DestStates : tempDir # "dir" => z = "absent"} :
      \E dl \in TempDownloads(dest), extracted \in BOOLEAN :
        LET res == get_zipped_asset(dl, extracted)
        IN  /\ mIdx' = after_fetch(res, mIdx, n)
            /\ IF res = Raised
               THEN mLog' = Logged(step, "raised") /\ mPc' = "raised"
               ELSE IF Falsy(res)
               THEN /\ mLog' = Append(Logged(step, "failed"), <<"msg", step>>)
                    /\ mPc' = mPc
               ELSE mLog' = Logged(step, "ok") /\ mPc' = mPc

MainGetPlugin ==
    /\ mPc = "plugins"
    /\ mIdx < mEnv.plugins
    /\ Fetch("get_plugin", mEnv.plugins)
    /\ UNCHANGED <<mArgs, mEnv, tempDir, zipFile, mRet>>

\* find_plugins is exhausted, or ends with an exception
MainPluginsDone ==
    /\ mPc = "plugins"
    /\ mIdx = mEnv.plugins
    /\ \E raised \in BOOLEAN :
        IF raised
        THEN mLog' = Logged("find_plugins", "raised") /\ mPc' = "raised"
        ELSE mLog' = mLog /\ mPc' = "themes"
    /\ mIdx' = 0
    /\ UNCHANGED <<mArgs, mEnv, tempDir, zipFile, mRet>>

MainGetTheme ==
    /\ mPc = "themes"
    /\ mIdx < mEnv.themes
    /\ Fetch("get_theme", mEnv.themes)
    /\ UNCHANGED <<mArgs, mEnv, tempDir, zipFile, mRet>>

\* find_themes is exhausted, or ends with an exception
MainThemesDone ==
    /\ mPc = "themes"
    /\ mIdx = mEnv.themes
    /\ \E raised \in BOOLEAN :
        IF raised
        THEN mLog' = Logged("find_themes", "raised") /\ mPc' = "raised"
        ELSE mLog' = mLog /\ mPc' = "compare"
    /\ mIdx' = 0
    /\ UNCHANGED <<mArgs, mEnv, tempDir, zipFile, mRet>>

\* a step of the analysis part, lines 498-504 (what dircmp and analyze
\* compute is the subject of Spec; here only their place in the run counts)
MainStep(from, step, to) ==
    /\ mPc = from
    /\ mLog' = Logged(step, "ok")
    /\ mPc' = to
    /\ UNCHANGED <<mArgs, mEnv, tempDir, zipFile, mRet, mIdx>>

MainCompare == MainStep("compare", "dircmp", "analyze")
MainAnalyze == MainStep("analyze", "analyze", "uploads")
MainSearchUploads == MainStep("uploads", "search_dir_for_exts", "print")
MainPrint == MainStep("print", "print_analysis", "tidy")

\* mutant: the temporary directory is removed whenever it exists
tidy_wanted_Always(args) == TRUE

\* "if args.remove_temporary_files", line 506
tidy_wanted(args) == args.tidy

\* lines 506-509: shutil.rmtree removes a directory and raises on anything
\* else, or when an entry cannot be removed
MainTidy ==
    /\ mPc = "tidy"
    /\ IF tidy_wanted(mArgs) /\ tempDir # "absent"
       THEN \E removed \in BOOLEAN :
                IF tempDir = "dir" /\ removed
                THEN /\ tempDir' = "absent" /\ zipFile' = "absent"
                     /\ mLog' = Logged("rmtree", "ok") /\ mPc' = "finished"
                ELSE /\ UNCHANGED <<tempDir, zipFile>>
                     /\ mLog' = Logged("rmtree", "raised") /\ mPc' = "raised"
       ELSE UNCHANGED <<tempDir, zipFile, mLog>> /\ mPc' = "finished"
    /\ UNCHANGED <<mArgs, mEnv, mRet, mIdx>>

\* every run of main
InitMain == MainInit /\ IgnoreParked /\ VersionParked /\ KeyParked /\ AnalyzeParked /\ ArtParked /\ GfParked /\ PrintParked /\ DlParked
NextMain ==
    \/ PwdInstall /\ UNCHANGED <<ignoreVars, versionVars, keyVars, analyzeVars, artVars, gfVars, printVars, dlVars>>
    \/ PwdOther /\ UNCHANGED <<ignoreVars, versionVars, keyVars, analyzeVars, artVars, gfVars, printVars, dlVars>>
    \/ PwdTempDir /\ UNCHANGED <<ignoreVars, versionVars, keyVars, analyzeVars, artVars, gfVars, printVars, dlVars>>
    \/ PwdVersion /\ UNCHANGED <<ignoreVars, versionVars, keyVars, analyzeVars, artVars, gfVars, printVars, dlVars>>
    \/ PwdDownload /\ UNCHANGED <<ignoreVars, versionVars, keyVars, analyzeVars, artVars, gfVars, printVars, dlVars>>
    \/ PwdUnzip /\ UNCHANGED <<ignoreVars, versionVars, keyVars, analyzeVars, artVars, gfVars, printVars, dlVars>>
    \/ MainAfterDirs /\ UNCHANGED <<ignoreVars, versionVars, keyVars, analyzeVars, artVars, gfVars, printVars, dlVars>>
    \/ MainGetPlugin /\ UNCHANGED <<ignoreVars, versionVars, keyVars, analyzeVars, artVars, gfVars, printVars, dlVars>>
    \/ MainPluginsDone /\ UNCHANGED <<ignoreVars, versionVars, keyVars, analyzeVars, artVars, gfVars, printVars, dlVars>>
    \/ MainGetTheme /\ UNCHANGED <<ignoreVars, versionVars, keyVars, analyzeVars, artVars, gfVars, printVars, dlVars>>
    \/ MainThemesDone /\ UNCHANGED <<ignoreVars, versionVars, keyVars, analyzeVars, artVars, gfVars, printVars, dlVars>>
    \/ MainCompare /\ UNCHANGED <<ignoreVars, versionVars, keyVars, analyzeVars, artVars, gfVars, printVars, dlVars>>
    \/ MainAnalyze /\ UNCHANGED <<ignoreVars, versionVars, keyVars, analyzeVars, artVars, gfVars, printVars, dlVars>>
    \/ MainSearchUploads /\ UNCHANGED <<ignoreVars, versionVars, keyVars, analyzeVars, artVars, gfVars, printVars, dlVars>>
    \/ MainPrint /\ UNCHANGED <<ignoreVars, versionVars, keyVars, analyzeVars, artVars, gfVars, printVars, dlVars>>
    \/ MainTidy /\ UNCHANGED <<ignoreVars, versionVars, keyVars, analyzeVars, artVars, gfVars, printVars, dlVars>>
SpecMain == InitMain /\ [][NextMain]_vars

(***************************************************************************)
(* Properties of process_wp_dirs and main (SpecMain)                       *)
(***************************************************************************)
PwdSteps == {"is_wordpress", "is_wordpress_other", "makedirs", "find_wp_version",
             "download_wordpress", "unzip"}

\* the steps process_wp_dirs has executed, in order
PwdLog == SelectSeq(mLog, LAMBDA e : e[1] \in PwdSteps)

\* process_wp_dirs has returned
PwdReturned == mRet # <<None, None>>

C14_WitnessExtracted ==
    /\ mPc = "returned" /\ mRet = <<MainWpPath, <<"wpa-temp", Sep, "wordpress">> >>
    /\ Len(PwdLog) = 5

(***************************************************************************)
(* Repeated downloads to one destination                                   *)
(***************************************************************************)
\* most calls of download_file for the destination
MaxCalls == 3

DlInit == dlDest \in DestStates /\ dlCalls = <<>>

\* one call of download_file(fileUrl, newFilePath, newFileName)
DownloadFileCall ==
    /\ Len(dlCalls) < MaxCalls
    /\ \E net \in NetStates, creatable \in BOOLEAN, written \in BOOLEAN :
        LET r == download_file(dlDest, net, creatable, written)
        IN  /\ dlDest' = r.dest
            /\ dlCalls' = Append(dlCalls,
                            [before |-> dlDest, net |-> net, creatable |-> creatable,
                             result |-> r.result, raised |-> r.raised,
                             requests |-> r.requests, after |-> r.dest])
    /\ UNCHANGED <<ignoreVars, versionVars, keyVars, analyzeVars, artVars, gfVars, printVars, mainVars>>

\* download_file called again and again for one destination
InitDownload == DlInit /\ IgnoreParked /\ VersionParked /\ KeyParked /\ AnalyzeParked /\ ArtParked /\ GfParked /\ PrintParked /\ MainParked
NextDownload == DownloadFileCall
SpecDownload == InitDownload /\ [][NextDownload]_vars

\* C15: a call that finds the destination file returns True, sends no
\* request and leaves the file as it is.  A call that does not find it sends
\* one request; on an error status it returns False and there is still no
\* destination file; when the file cannot be created it returns False; it
\* returns True only with the response body written to the destination.
\* After a call that returned True every later call returns True and sends
\* no request.
C15_DownloadFile ==
    /\ \A i \in 1..Len(dlCalls) :
        LET c == dlCalls[i]
        IN  /\ c.before \in FileStates =>
                (c.result /\ ~c.raised /\ c.requests = 0 /\ c.after = c.before)
            /\ c.before \notin FileStates =>
                /\ c.requests = 1
                /\ c.net = "status" => (~c.result /\ ~c.raised /\ c.after = c.before)
                /\ (c.net \in Bodies /\ ~c.creatable) => (~c.result /\ ~c.raised)
                /\ c.result => (c.net \in Bodies /\ c.after = c.net /\ ~c.raised)
            /\ c.result =>
                \A j \in (i + 1)..Len(dlCalls) :
                    dlCalls[j].result /\ dlCalls[j].requests = 0
    /\ dlCalls # <<>> => dlDest = dlCalls[Len(dlCalls)].after

\* C15 witness: the first call downloaded the file, the second call found it
\* and returned True without a request.
C15_Witness ==
    /\ Len(dlCalls) >= 2
    /\ dlCalls[1].before = "absent" /\ dlCalls[1].result /\ dlCalls[1].requests = 1
    /\ dlCalls[2].result /\ dlCalls[2].requests = 0 /\ dlDest = dlCalls[1].net

FetchSteps == {"download_wordpress", "unzip", "get_plugin", "get_theme"}
ArtifactFetchSteps == {"get_plugin", "get_theme"}
ClassificationSteps == {"dircmp", "analyze"}

\* every fetch in the run precedes the comparison and analyze
FetchesPrecedeClassification ==
    \A i, j \in 1..Len(mLog) :
        (mLog[i][1] \in FetchSteps /\ mLog[j][1] \in ClassificationSteps) => i < j

\* a plugin or theme fetch that returned failure is reported, and the loop
\* that made it goes on
FailedFetchIsSkipped ==
    /\ \A i \in 1..Len(mLog) :
        (mLog[i][1] \in ArtifactFetchSteps /\ mLog[i][2] = "failed")
            => (i < Len(mLog) /\ mLog[i + 1] = <<"msg", mLog[i][1]>>)
    /\ (mLog # <<>> /\ mLog[Len(mLog)][1] = "msg") => mPc \notin {"raised", "exited"}

\* C16: in every run of main all fetches (core download and unzip, plugin
\* and theme fetches) precede the directory comparison and analyze; plugins
\* and themes are fetched only when no reference directory was supplied on
\* the command line; a plugin or theme fetch that fails is reported and the
\* run goes on with the next one.
C16_FetchesBeforeClassification ==
    /\ FetchesPrecedeClassification
    /\ mArgs.other # None => \A i \in 1..Len(mLog) : mLog[i][1] \notin ArtifactFetchSteps
    /\ FailedFetchIsSkipped

\* the parts of C16 that hold in every run: the order of fetches and
\* classification, and the handling of a fetch that returned failure
C16_OrderAndSkipping == FetchesPrecedeClassification /\ FailedFetchIsSkipped

\* the steps of the analysis part that main has completed before log entry i
DoneBefore(i) == {mLog[j][1] : j \in 1..(i - 1)}

\* what holds of the clean-up in every state of a run
TidyUpState ==
    /\ (mPc = "finished" /\ mArgs.tidy) => tempDir = "absent"
    /\ \A i \in 1..Len(mLog) :
        mLog[i][1] = "rmtree" =>
            /\ mArgs.tidy
            /\ {"dircmp", "analyze", "search_dir_for_exts", "print_analysis"}
                    \subseteq DoneBefore(i)
            /\ i = Len(mLog)

\* TEMP_DIR goes away only in the clean-up step of a run with --tidy-up
TidyUpStep ==
    (tempDir # "absent" /\ tempDir' = "absent") => (mArgs.tidy /\ mPc = "tidy")

\* C18: when --tidy-up is given and main returns after the analysis,
\* TEMP_DIR does not exist; it is removed only after dircmp, analyze and
\* print_analysis have completed, as the last step of main; without --tidy-up
\* no step of main removes TEMP_DIR.
C18_TidyUp == []TidyUpState /\ [][TidyUpStep]_vars

\* C18 witness: a run with --tidy-up that compared against the copy
\* extracted under TEMP_DIR has returned, and TEMP_DIR is gone.
C18_Witness ==
    /\ mPc = "finished" /\ mArgs.tidy /\ tempDir = "absent"
    /\ mRet[2] = <<"wpa-temp", Sep, "wordpress">>
    /\ mLog[Len(mLog)] = <<"rmtree", "ok">>

(***************************************************************************)
(* Installation-only directories (specification Spec)                      *)
(***************************************************************************)
\* the regular files of the installation that lie inside a directory which
\* the reference does not have, as relative paths
InsideLeftOnlyDir ==
    {rel \in FilesBelow(LeftRoot) :
        \E n \in 1..(Len(rel) - 1) :
            /\ disk[LeftRoot \o SubSeq(rel, 1, n)] = Dir
            /\ (RightRoot \o SubSeq(rel, 1, n)) \notin DOMAIN disk}

\* C19: after analyze, every path in extra is join(n.left, name) for a node n
\* of the comparison tree and a name in n.left_only, so its parent directory
\* exists in both trees; a file inside a directory that only the
\* installation has is in none of extra, diff and missing.
C19_ExtraIsChildOfCommonDir ==
    pc = "analyzed" =>
        /\ \A p \in extra :
            \E n \in Nodes(dcres) :
                /\ \E name \in n.left_only : p = Join(n.left, name)
                /\ isdir(n.left) /\ isdir(n.right)
        /\ \A rel \in InsideLeftOnlyDir :
            PathOf(wpPath, rel) \notin extra \cup diff \cup missing

\* C19 witness: wp-content exists only in the installation and holds a
\* regular file named themes, which no ignore rule covers; analyze has run
\* and has not reported it.
C19_Witness ==
    /\ pc = "analyzed"
    /\ dcres.left_only = { <<"wp-content">> }
    /\ << <<"wp-content">>, <<"themes">> >> \in InsideLeftOnlyDir
    /\ ~ignored_file(PathOf(wpPath, << <<"wp-content">>, <<"themes">> >>), wpPath)
    /\ extra = {}

====
